---- MODULE Spec2Model ----
(***************************************************************************)
(* Model of the maptiler-go upload engine: the generic worker pool         *)
(* (pool.go), the upload processor, and the orchestration in client.go     *)
(* (process / withCancel / upload / ingest / finalize / cancel).           *)
(* One Create or Update call of a Client is modelled from its invocation   *)
(* to its return, with every goroutine it starts.  Create and Update run   *)
(* the same code and differ only in the URL of the ingest request.         *)
(***************************************************************************)
EXTENDS Integers, Sequences, FiniteSets, TLC

\* ------------------------------------------------------------------ bounds
MaxParts    == 3    \* longest part list of an upload plan
MaxFileSize == 3    \* largest file size of an upload plan
MaxPartSize == 2    \* largest part size of an upload plan
MaxConc     == 2    \* largest pool concurrency
MaxQueue    == 1    \* largest task queue capacity
MaxRangeSize == 35  \* largest fileSize of the getRange calls examined alone
MaxRangePart == 10  \* largest partSize of the getRange calls examined alone
MaxClientParts == 2 \* parts of each upload when two uploads share a Client

FileSizes    == 0..MaxFileSize
PartSizes    == -1..MaxPartSize
Concurrency  == 1..MaxConc
QueueSizes   == 0..MaxQueue
Workers      == 1..MaxConc
RangeSizes   == 0..MaxRangeSize
RangeParts   == 1..MaxRangePart
Uploads      == {1, 2}

\* ------------------------------------------------------------------ errors
\* An error value: type, message, the ID of an UploadFailedError, the errors
\* reachable through Unwrap (wraps) and the Err field of an
\* UploadFailedError (which has no Unwrap method).
NoErr == [type |-> "nil", msg |-> "", ID |-> "", part |-> 0, wraps |-> <<>>, Err |-> <<>>]

ErrNew(m) == [type |-> "error", msg |-> m, ID |-> "", part |-> 0, wraps |-> <<>>, Err |-> <<>>]

Errorf(m, ws) == [type |-> "error", msg |-> m, ID |-> "", part |-> 0, wraps |-> ws, Err |-> <<>>]

PartErrorf(m, p) == [type |-> "error", msg |-> m, ID |-> "", part |-> p, wraps |-> <<>>, Err |-> <<>>]

\* variant of UploadFailedError that loses the ingestion ID
UploadFailedErrorNoID(id, e) ==
    [type |-> "UploadFailedError", msg |-> "", ID |-> "", part |-> 0, wraps |-> <<>>,
     Err |-> IF e = NoErr THEN <<>> ELSE <<e>>]

UploadFailedError(id, e) ==
    [type |-> "UploadFailedError", msg |-> "", ID |-> id, part |-> 0, wraps |-> <<>>,
     Err |-> IF e = NoErr THEN <<>> ELSE <<e>>]

ctxErr == ErrNew("context canceled")

\* errors.As(err, &UploadFailedError{}): pre-order walk of the Unwrap tree.
RECURSIVE AsUploadFailed(_)
AsUploadFailed(e) ==
    IF e.type = "UploadFailedError" THEN e
    ELSE IF Len(e.wraps) = 0 THEN NoErr
    ELSE IF AsUploadFailed(e.wraps[1]) # NoErr THEN AsUploadFailed(e.wraps[1])
    ELSE IF Len(e.wraps) = 1 THEN NoErr
    ELSE AsUploadFailed(e.wraps[2])

\* errors.Is(err, target): target occurs in the Unwrap tree of err.
RECURSIVE ErrIs(_, _)
ErrIs(e, target) ==
    \/ e = target
    \/ \E i \in 1..Len(e.wraps) : ErrIs(e.wraps[i], target)

\* ---------------------------------------------------------- pure functions
\* variant of getRange without the guard on partSize
getRangeNoGuard(idx, partSize, fileSize) ==
    LET off == idx * partSize IN
    IF off >= fileSize THEN <<off, 0>>
    ELSE LET remaining == fileSize - off IN
         IF remaining < partSize THEN <<off, remaining>>
         ELSE <<off, partSize>>

\* variant of getRange that never shortens the last part
getRangeFullParts(idx, partSize, fileSize) ==
    IF partSize <= 0 THEN <<0, 0>>
    ELSE LET off == idx * partSize IN
         IF off >= fileSize THEN <<off, 0>>
         ELSE <<off, partSize>>

\* variant of getRange without the test for an offset past the end
getRangeNoEnd(idx, partSize, fileSize) ==
    IF partSize <= 0 THEN <<0, 0>>
    ELSE LET off == idx * partSize
             remaining == fileSize - off IN
         IF remaining < partSize THEN <<off, remaining>>
         ELSE <<off, partSize>>

\* getRange(idx, partSize, fileSize) -> <<off, length>>
getRange(idx, partSize, fileSize) ==
    IF partSize <= 0 THEN <<0, 0>>
    ELSE LET off == idx * partSize IN
         IF off >= fileSize THEN <<off, 0>>
         ELSE LET remaining == fileSize - off IN
              IF remaining < partSize THEN <<off, remaining>>
              ELSE <<off, partSize>>

\* fmt.Sprint of a non-negative integer: its decimal digits.
RECURSIVE Sprint(_)
Sprint(n) == IF n < 10 THEN <<n>> ELSE Sprint(n \div 10) \o <<n % 10>>

\* variant of cmpPartID with the two results exchanged
cmpPartIDDesc(a, b) == IF a.PartID < b.PartID THEN 1
                       ELSE IF a.PartID > b.PartID THEN -1 ELSE 0

\* the comparison function handed to slices.SortFunc in upload
cmpPartID(a, b) == IF a.PartID < b.PartID THEN -1
                   ELSE IF a.PartID > b.PartID THEN 1 ELSE 0

\* insertion of one element into a sequence ordered by cmpPartID
RECURSIVE InsertSorted(_, _)
InsertSorted(s, x) ==
    IF s = <<>> THEN <<x>>
    ELSE IF cmpPartID(x, Head(s)) < 0 THEN <<x>> \o s
    ELSE <<Head(s)>> \o InsertSorted(Tail(s), x)

\* slices.SortFunc(responses, cmp)
RECURSIVE SortFunc(_)
SortFunc(s) == IF s = <<>> THEN <<>>
               ELSE InsertSorted(SortFunc(Tail(s)), Head(s))

\* all orders in which a map's values can be collected (Go map iteration
\* order is unspecified)
Collect(m) ==
    LET n == Cardinality(DOMAIN m) IN
    { s \in [1..n -> {m[k] : k \in DOMAIN m}] :
        \A i, j \in 1..n : i # j => s[i] # s[j] }

\* variant of newUploadResult that loses the parts
newUploadResultNoParts(id, parts) == [ID |-> id, Type |-> "s3_multipart", Parts |-> <<>>]

\* newUploadResult(id, parts)
newUploadResult(id, parts) == [ID |-> id, Type |-> "s3_multipart", Parts |-> parts]

\* the integrity token the remote store returns for a part
ETagOf(p) == 100 + p

\* the ETag header of a response that carries none
EmptyETag == 0

\* variant of uploadTaskResponse that labels the response with the task's
\* position in the plan instead of its PartID
uploadTaskResponseByIndex(t, etag) == [PartID |-> t.ID, ETag |-> etag]

\* uploadTaskResponse{PartID: t.Body.PartID, ETag: etag}
uploadTaskResponse(t, etag) == [PartID |-> t.PartID, ETag |-> etag]

\* part lists a plan can carry: the parts of one upload are numbered 1..n,
\* listed by the service in any order
PartLists ==
    UNION { { s \in [1..n -> 1..n] : \A i, j \in 1..n : i # j => s[i] # s[j] } :
            n \in 0..MaxParts }

NoPlan == [ID |-> "", Size |-> 0, PartSize |-> 0, Parts |-> <<>>]
IngestID == "ing-xyz"

NoTask == [ID |-> 0, PartID |-> 0, Offset |-> 0, Length |-> 0]

\* ------------------------------------------------------------------- state
VARIABLES
    pc,            \* position of the goroutine that runs Create/Update
    conc,          \* wp.config.concurrency
    queueSize,     \* wp.config.queueSize, the capacity of wp.tasks
    ctxDone,       \* the caller's context is cancelled
    gctxDone,      \* gctx of upload's errgroup is cancelled
    pctxDone,      \* ctx of Start's errgroup is cancelled
    plan,          \* the IngestResponse returned by ingest
    tasks,         \* buffer of the channel wp.tasks
    tasksClosed,   \* wp.tasks is closed
    respCh,        \* buffer of the channel respCh
    respChClosed,  \* respCh is closed
    results,       \* the map results of upload, keyed by fmt.Sprint(PartID)
    genPc,         \* generator goroutine: "idle", "run", "done"
    genIdx,        \* loop index i of the generator
    runPc,         \* pool runner goroutine: "idle", "start", "wait", "done"
    colPc,         \* collector goroutine: "idle", "run", "done"
    wstate,        \* worker goroutine: "none", "select", "busy", "done"
    wtask,         \* the task a worker is processing
    wret,          \* the value a worker returned from process
    poolErr,       \* first error recorded by Start's errgroup
    startRet,      \* value returned by Start
    egErr,         \* first error recorded by upload's errgroup
    uploadRet,     \* UploadResult returned by upload
    procRet,       \* error returned by process
    ret,           \* error returned by Create/Update
    ingestCalls,   \* number of ingest (create or update) requests made
    finalizeCalls, \* payloads handed to finalize
    cancelCalls,   \* ingestion IDs handed to cancel
    cancelRecv,    \* ingestion IDs of the cancel requests the service received
    cancelRet,     \* error returned by the cancel call
    ingestID,      \* ingestion ID delivered by the ingest response, "" if none
    outcome,       \* what stat and the service answered: stat, ingest, finalize
    handed,        \* per task ID, how often it was handed to Process
    failedTasks,   \* IDs of the tasks whose Process returned an error
    firstFailed,   \* the worker that first returned an error, 0 if none
    startCtx,      \* the context was already cancelled when Start was invoked
    rS,            \* getRange calls: the fileSize argument
    rP,            \* getRange calls: the partSize argument
    rIdx,          \* getRange calls: the idx argument of the next call
    rOff,          \* getRange calls: off returned by the last call
    rLen,          \* getRange calls: length returned by the last call
    rSum,          \* getRange calls: sum of the lengths returned so far
    cPc,           \* two uploads on one Client: position of each upload call
    cTasks,        \* two uploads: buffer of the channel wp.tasks of c.wp
    cClosed,       \* two uploads: wp.tasks of c.wp is closed
    cGen,          \* two uploads: position of each upload's generator
    cIdx,          \* two uploads: loop index of each upload's generator
    cRun,          \* two uploads: position of each upload's pool runner
    cW,            \* two uploads: position of the workers each Start launched
    cWTask,        \* two uploads: the task each worker is processing
    cRespClosed,   \* two uploads: respCh of each upload is closed
    cGot,          \* two uploads: responses sent on each upload's respCh
    cPanic,        \* two uploads: a goroutine has panicked
    cAfter         \* two uploads: the upload was called after the other returned

vars == <<pc, conc, queueSize, ctxDone, gctxDone, pctxDone, plan, tasks,
          tasksClosed, respCh, respChClosed, results, genPc, genIdx, runPc,
          colPc, wstate, wtask, wret, poolErr, startRet, egErr, uploadRet,
          procRet, ret, ingestCalls, finalizeCalls, cancelCalls, cancelRecv,
          cancelRet, ingestID, outcome, handed, failedTasks, firstFailed,
          startCtx, rS, rP, rIdx, rOff, rLen, rSum, cPc, cTasks, cClosed,
          cGen, cIdx, cRun, cW, cWTask, cRespClosed, cGot, cPanic, cAfter>>

mainVars   == <<pc, plan, uploadRet, procRet, ret, ingestCalls, finalizeCalls,
                cancelCalls, cancelRecv, cancelRet, ingestID, outcome>>
configVars == <<conc, queueSize>>
ctxVars    == <<ctxDone, gctxDone, pctxDone>>
poolVars   == <<tasks, tasksClosed, wstate, wtask, wret, poolErr, startRet,
                handed, failedTasks, firstFailed, startCtx>>
roleVars   == <<genPc, genIdx, runPc, colPc, egErr>>
respVars   == <<respCh, respChClosed, results>>
rangeVars  == <<rS, rP, rIdx, rOff, rLen, rSum>>
clientVars == <<cPc, cTasks, cClosed, cGen, cIdx, cRun, cW, cWTask,
                cRespClosed, cGot, cPanic, cAfter>>
uploadVars == <<mainVars, configVars, ctxVars, poolVars, roleVars, respVars>>

NoUploadResult == newUploadResult("", <<>>)

\* New / newClientWithPool + the call of Create or Update
UploadInit ==
    /\ pc = "fileInfo"
    /\ conc \in Concurrency
    /\ queueSize \in QueueSizes
    /\ ctxDone = FALSE /\ gctxDone = FALSE /\ pctxDone = FALSE
    /\ plan = NoPlan
    /\ tasks = <<>> /\ tasksClosed = FALSE
    /\ respCh = <<>> /\ respChClosed = FALSE
    /\ results = <<>>
    /\ genPc = "idle" /\ genIdx = 0
    /\ runPc = "idle" /\ colPc = "idle"
    /\ wstate = [w \in Workers |-> "none"]
    /\ wtask = [w \in Workers |-> NoTask]
    /\ wret = [w \in Workers |-> NoErr]
    /\ poolErr = NoErr /\ startRet = NoErr /\ egErr = NoErr
    /\ uploadRet = NoUploadResult
    /\ procRet = NoErr /\ ret = NoErr
    /\ ingestCalls = 0 /\ finalizeCalls = <<>>
    /\ cancelCalls = <<>> /\ cancelRecv = <<>> /\ cancelRet = NoErr
    /\ ingestID = ""
    /\ outcome = [stat |-> "", ingest |-> "", finalize |-> ""]
    /\ handed = [i \in 1..MaxParts |-> 0]
    /\ failedTasks = {}
    /\ firstFailed = 0
    /\ startCtx = FALSE

\* no getRange call is being examined
RangeIdle ==
    /\ rS = 0 /\ rP = 0 /\ rIdx = 0
    /\ rOff = 0 /\ rLen = 0 /\ rSum = 0

\* a task of the shared queue: the upload whose generator made it and its
\* index in that upload
NoCTask == [up |-> 0, ID |-> 0]

\* no upload has been called on the Client
ClientIdle ==
    /\ cPc = [u \in Uploads |-> "idle"]
    /\ cTasks = <<>> /\ cClosed = FALSE
    /\ cGen = [u \in Uploads |-> "idle"]
    /\ cIdx = [u \in Uploads |-> 0]
    /\ cRun = [u \in Uploads |-> "idle"]
    /\ cW = [u \in Uploads |-> [w \in Workers |-> "none"]]
    /\ cWTask = [u \in Uploads |-> [w \in Workers |-> NoCTask]]
    /\ cRespClosed = [u \in Uploads |-> FALSE]
    /\ cGot = [u \in Uploads |-> 0]
    /\ cPanic = FALSE
    /\ cAfter = [u \in Uploads |-> FALSE]

Init == UploadInit /\ RangeIdle /\ ClientIdle

\* ----------------------------------------------------- process (main flow)
\* variant of fileInfoErr without the IsDir check
fileInfoErrNoDirCheck(st) ==
    CASE st = "notexist" -> ErrNew("expected file to exist, but it does not")
      [] OTHER           -> NoErr

\* the error fileInfo(fp) returns for each outcome of os.Stat: a regular
\* file, a directory, a missing path, any other stat error
fileInfoErr(st) ==
    CASE st = "dir"      -> ErrNew("expected file to exist, but it is a directory")
      [] st = "notexist" -> ErrNew("expected file to exist, but it does not")
      [] OTHER           -> NoErr

\* fileInfo(fp) and the use of its result in process
FileInfo ==
    /\ pc = "fileInfo"
    /\ \E st \in {"file", "dir", "notexist", "othererr"} :
         /\ outcome' = [outcome EXCEPT !.stat = st]
         /\ IF fileInfoErr(st) # NoErr
            THEN /\ pc' = "withCancel"
                 /\ procRet' = fileInfoErr(st)
            ELSE IF st = "othererr"
            THEN \* fileInfo returns (nil, nil); info.Name() dereferences nil
                 /\ pc' = "panic" /\ procRet' = procRet
            ELSE /\ pc' = "ingest" /\ procRet' = procRet
    /\ UNCHANGED <<plan, uploadRet, ret, ingestCalls, finalizeCalls,
                   cancelCalls, cancelRecv, cancelRet, ingestID, configVars,
                   rangeVars, clientVars, ctxVars, poolVars, roleVars,
                   respVars>>

\* outcomes of a request to the service; a request on a cancelled context
\* fails in the transport without reaching the service
Outcomes == IF ctxDone THEN {"transportErr"}
            ELSE {"ok", "transportErr", "httpErr", "decodeErr", "failedState"}

\* variant of ingestErr without the check of the plan's state
ingestErrIgnoreState(o, id) ==
    CASE o = "transportErr" -> ErrNew("transport")
      [] o = "httpErr"      -> ErrNew("request failed with status")
      [] o = "decodeErr"    -> ErrNew("decode")
      [] OTHER              -> NoErr

\* the error ingest returns for each outcome of its request; id is the ID
\* in the response
ingestErr(o, id) ==
    CASE o = "transportErr" -> ErrNew("transport")
      [] o = "httpErr"      -> ErrNew("request failed with status")
      [] o = "decodeErr"    -> ErrNew("decode")
      [] o = "failedState"  -> UploadFailedError(id, NoErr)
      [] OTHER              -> NoErr

\* ingest(ctx, request), called from process
Ingest ==
    /\ pc = "ingest"
    /\ ingestCalls' = ingestCalls + 1
    /\ \E o \in Outcomes :
         /\ outcome' = [outcome EXCEPT !.ingest = o]
         /\ ingestID' = IF o \in {"ok", "failedState"} THEN IngestID ELSE ""
         /\ IF ingestErr(o, IngestID) # NoErr
            THEN /\ procRet' = ingestErr(o, IngestID)
                 /\ plan' = plan
                 /\ pc' = "withCancel"
            ELSE /\ \E ps \in PartLists, sz \in FileSizes, psz \in PartSizes :
                      plan' = [ID |-> IngestID, Size |-> sz, PartSize |-> psz,
                               Parts |-> ps]
                 /\ procRet' = procRet
                 /\ pc' = "upload"
    /\ UNCHANGED <<uploadRet, ret, finalizeCalls, cancelCalls, cancelRecv,
                   cancelRet, configVars, rangeVars, clientVars, ctxVars,
                   poolVars, roleVars, respVars>>

\* upload(ctx, ir, fp) up to eg.Wait: makes respCh and results and starts the
\* three goroutines of the errgroup
Upload ==
    /\ pc = "upload"
    /\ pc' = "egWait"
    /\ respCh' = <<>> /\ respChClosed' = FALSE /\ results' = <<>>
    /\ gctxDone' = ctxDone
    /\ runPc' = "start" /\ genPc' = "run" /\ colPc' = "run"
    /\ genIdx' = 0 /\ egErr' = NoErr
    /\ UNCHANGED <<plan, uploadRet, procRet, ret, ingestCalls, finalizeCalls,
                   cancelCalls, cancelRecv, cancelRet, ingestID, outcome,
                   configVars, rangeVars, clientVars, ctxDone, pctxDone,
                   poolVars>>

\* a panic in any goroutine ends the process
Running == pc # "panic"

\* ----------------------------------------------------------- worker pool
\* variant of PoolRecord in which a later error replaces the recorded one
PoolRecordLast(e) == e

\* errgroup.Group.Go of Start's group: errOnce keeps the first non-nil error
PoolRecord(e) == IF poolErr = NoErr THEN e ELSE poolErr

\* variant of RunnerStart that spawns a worker for every slot, whatever the
\* configured concurrency
RunnerStartAll ==
    /\ Running
    /\ runPc = "start"
    /\ runPc' = "wait"
    /\ wstate' = [w \in Workers |-> "select"]
    /\ wtask' = [w \in Workers |-> NoTask]
    /\ wret' = [w \in Workers |-> NoErr]
    /\ poolErr' = NoErr /\ startRet' = NoErr
    /\ pctxDone' = gctxDone
    /\ startCtx' = gctxDone
    /\ UNCHANGED <<mainVars, configVars, rangeVars, clientVars, ctxDone,
                   gctxDone, tasks, tasksClosed, handed, failedTasks,
                   firstFailed, genPc, genIdx, colPc, egErr, respVars>>

\* pool.Start up to g.Wait: launches config.concurrency workers on a context
\* derived from gctx
RunnerStart ==
    /\ Running
    /\ runPc = "start"
    /\ runPc' = "wait"
    /\ wstate' = [w \in Workers |-> IF w <= conc THEN "select" ELSE "none"]
    /\ wtask' = [w \in Workers |-> NoTask]
    /\ wret' = [w \in Workers |-> NoErr]
    /\ poolErr' = NoErr /\ startRet' = NoErr
    /\ pctxDone' = gctxDone
    /\ startCtx' = gctxDone
    /\ UNCHANGED <<mainVars, configVars, rangeVars, clientVars, ctxDone,
                   gctxDone, tasks, tasksClosed, handed, failedTasks,
                   firstFailed, genPc, genIdx, colPc, egErr, respVars>>

\* variant of WorkerCtxDone in which the worker returns nil on cancellation
WorkerCtxDoneNil(w) ==
    /\ Running
    /\ wstate[w] = "select"
    /\ pctxDone
    /\ wstate' = [wstate EXCEPT ![w] = "done"]
    /\ wret' = [wret EXCEPT ![w] = NoErr]
    /\ UNCHANGED <<mainVars, configVars, rangeVars, clientVars, ctxVars, tasks,
                   tasksClosed, wtask, poolErr, startRet, startCtx, handed,
                   failedTasks, firstFailed, roleVars, respVars>>

\* variant of WorkerCtxDone in which a cancelled worker blocks instead of
\* returning
WorkerCtxDoneStuck(w) ==
    /\ Running
    /\ wstate[w] = "select"
    /\ pctxDone
    /\ wstate' = [wstate EXCEPT ![w] = "stuck"]
    /\ UNCHANGED <<mainVars, configVars, rangeVars, clientVars, ctxVars,
                   tasks, tasksClosed, wtask, wret, poolErr, startRet,
                   startCtx, handed, failedTasks, firstFailed, roleVars,
                   respVars>>

\* variant of WorkerCtxDone in which cancellation also stops a worker that
\* is processing a task
WorkerCtxDoneAbort(w) ==
    /\ Running
    /\ wstate[w] \in {"select", "busy"}
    /\ pctxDone
    /\ wstate' = [wstate EXCEPT ![w] = "done"]
    /\ wret' = [wret EXCEPT ![w] = ctxErr]
    /\ poolErr' = PoolRecord(ctxErr)
    /\ firstFailed' = IF firstFailed = 0 THEN w ELSE firstFailed
    /\ UNCHANGED <<mainVars, configVars, rangeVars, clientVars, ctxVars,
                   tasks, tasksClosed, wtask, startRet, startCtx, handed,
                   failedTasks, roleVars, respVars>>

\* pool.process, select case <-ctx.Done(): return ctx.Err()
WorkerCtxDone(w) ==
    /\ Running
    /\ wstate[w] = "select"
    /\ pctxDone
    /\ wstate' = [wstate EXCEPT ![w] = "done"]
    /\ wret' = [wret EXCEPT ![w] = ctxErr]
    /\ poolErr' = PoolRecord(ctxErr)
    /\ firstFailed' = IF firstFailed = 0 THEN w ELSE firstFailed
    /\ UNCHANGED <<mainVars, configVars, rangeVars, clientVars, ctxVars, tasks,
                   tasksClosed, wtask, startRet, startCtx, handed,
                   failedTasks, roleVars, respVars>>

\* pool.process, select case t, ok := <-wp.tasks with ok: a task is taken
\* from the buffer
WorkerTake(w) ==
    /\ Running
    /\ wstate[w] = "select"
    /\ tasks # <<>>
    /\ wstate' = [wstate EXCEPT ![w] = "busy"]
    /\ wtask' = [wtask EXCEPT ![w] = Head(tasks)]
    /\ tasks' = Tail(tasks)
    /\ handed' = [handed EXCEPT ![Head(tasks).ID] = @ + 1]
    /\ UNCHANGED <<mainVars, configVars, rangeVars, clientVars, ctxVars,
                   tasksClosed, wret, poolErr, startRet, startCtx,
                   failedTasks, firstFailed, roleVars, respVars>>

\* variant of WorkerClosed in which the worker leaves as soon as wp.tasks is
\* closed, without draining its buffer
WorkerClosedEarly(w) ==
    /\ Running
    /\ wstate[w] = "select"
    /\ tasksClosed
    /\ wstate' = [wstate EXCEPT ![w] = "done"]
    /\ wret' = [wret EXCEPT ![w] = NoErr]
    /\ UNCHANGED <<mainVars, configVars, rangeVars, clientVars, ctxVars, tasks,
                   tasksClosed, wtask, poolErr, startRet, startCtx, handed,
                   failedTasks, firstFailed, roleVars, respVars>>

\* pool.process, select case t, ok := <-wp.tasks with !ok: return nil
WorkerClosed(w) ==
    /\ Running
    /\ wstate[w] = "select"
    /\ tasks = <<>> /\ tasksClosed
    /\ wstate' = [wstate EXCEPT ![w] = "done"]
    /\ wret' = [wret EXCEPT ![w] = NoErr]
    /\ UNCHANGED <<mainVars, configVars, rangeVars, clientVars, ctxVars, tasks,
                   tasksClosed, wtask, poolErr, startRet, startCtx, handed,
                   failedTasks, firstFailed, roleVars, respVars>>

\* variant of ProcessErr in which the worker drops the error of Process and
\* goes on with the next task
ProcessErrSwallow(w, e) ==
    /\ wstate' = [wstate EXCEPT ![w] = "select"]
    /\ wtask' = [wtask EXCEPT ![w] = NoTask]
    /\ failedTasks' = failedTasks \cup {wtask[w].ID}
    /\ UNCHANGED <<wret, poolErr, pctxDone, pc, respVars, firstFailed>>

\* pool.process returns the error e of Process; Start's errgroup records it
ProcessErr(w, e) ==
    /\ wstate' = [wstate EXCEPT ![w] = "done"]
    /\ wret' = [wret EXCEPT ![w] = e]
    /\ wtask' = [wtask EXCEPT ![w] = NoTask]
    /\ poolErr' = PoolRecord(e)
    /\ pctxDone' = TRUE
    /\ failedTasks' = failedTasks \cup {wtask[w].ID}
    /\ firstFailed' = IF firstFailed = 0 THEN w ELSE firstFailed
    /\ UNCHANGED <<pc, respVars>>

\* variant of respChCap for a result stream with one slot fewer than the
\* plan lists parts
respChCapOneShort == Len(plan.Parts) - 1

\* respCh := make(chan uploadTaskResponse, len(parts))
respChCap == Len(plan.Parts)

\* variant of WorkerProcess that sends the response without looking at its
\* ETag
WorkerProcessNoETagCheck(w) ==
    /\ Running
    /\ wstate[w] = "busy"
    /\ IF pctxDone
       THEN ProcessErr(w, Errorf("processing upload", <<ctxErr>>))
       ELSE \E o \in {"ok", "sendErr", "emptyETag"} :
              CASE o = "sendErr" ->
                     ProcessErr(w, PartErrorf("sending part", wtask[w].PartID))
                [] o \in {"ok", "emptyETag"} ->
                     \* t.Body.RespCh <- uploadTaskResponse{...}
                     /\ Len(respCh) < respChCap \/ respChClosed
                     /\ IF respChClosed
                        THEN /\ pc' = "panic"
                             /\ UNCHANGED respVars
                        ELSE /\ respCh' = Append(respCh,
                                     uploadTaskResponse(wtask[w],
                                         IF o = "ok"
                                         THEN ETagOf(wtask[w].PartID)
                                         ELSE EmptyETag))
                             /\ UNCHANGED <<pc, respChClosed, results>>
                     /\ wstate' = [wstate EXCEPT ![w] = "select"]
                     /\ wtask' = [wtask EXCEPT ![w] = NoTask]
                     /\ UNCHANGED <<wret, poolErr, pctxDone, failedTasks,
                                    firstFailed>>
    /\ UNCHANGED <<plan, uploadRet, procRet, ret, ingestCalls, finalizeCalls,
                   cancelCalls, cancelRecv, cancelRet, ingestID, outcome,
                   configVars, rangeVars, clientVars, ctxDone, gctxDone,
                   tasks, tasksClosed, startRet, startCtx, handed, roleVars>>

\* uploadProcessor.Process(ctx, t) and the use of its result in pool.process
WorkerProcess(w) ==
    /\ Running
    /\ wstate[w] = "busy"
    /\ IF pctxDone
       THEN ProcessErr(w, Errorf("processing upload", <<ctxErr>>))
       ELSE \E o \in {"ok", "sendErr", "emptyETag"} :
              CASE o = "sendErr" ->
                     ProcessErr(w, PartErrorf("sending part", wtask[w].PartID))
                [] o = "emptyETag" ->
                     ProcessErr(w, ErrNew("empty etag in response header"))
                [] o = "ok" ->
                     \* t.Body.RespCh <- uploadTaskResponse{...}
                     /\ Len(respCh) < respChCap \/ respChClosed
                     /\ IF respChClosed
                        THEN /\ pc' = "panic"
                             /\ UNCHANGED respVars
                        ELSE /\ respCh' = Append(respCh,
                                     uploadTaskResponse(wtask[w],
                                         ETagOf(wtask[w].PartID)))
                             /\ UNCHANGED <<pc, respChClosed, results>>
                     /\ wstate' = [wstate EXCEPT ![w] = "select"]
                     /\ wtask' = [wtask EXCEPT ![w] = NoTask]
                     /\ UNCHANGED <<wret, poolErr, pctxDone, failedTasks,
                                    firstFailed>>
    /\ UNCHANGED <<plan, uploadRet, procRet, ret, ingestCalls, finalizeCalls,
                   cancelCalls, cancelRecv, cancelRet, ingestID, outcome,
                   configVars, rangeVars, clientVars, ctxDone, gctxDone,
                   tasks, tasksClosed, startRet, startCtx, handed, roleVars>>

\* variant of RunnerReturn in which Start returns as soon as one worker has
\* returned
RunnerReturnEarly ==
    /\ Running
    /\ runPc = "wait"
    /\ \E w \in Workers : w <= conc /\ wstate[w] = "done"
    /\ runPc' = "done"
    /\ startRet' = poolErr
    /\ pctxDone' = TRUE
    /\ startCtx' = startCtx
    /\ respChClosed' = TRUE
    /\ IF poolErr # NoErr
       THEN /\ egErr' = IF egErr = NoErr
                         THEN Errorf("processing worker pool", <<poolErr>>)
                         ELSE egErr
            /\ gctxDone' = TRUE
       ELSE UNCHANGED <<egErr, gctxDone>>
    /\ UNCHANGED <<mainVars, configVars, rangeVars, clientVars, ctxDone, tasks,
                   tasksClosed, wstate, wtask, wret, poolErr, handed,
                   failedTasks, firstFailed, genPc, genIdx, colPc, respCh,
                   results>>

\* g.Wait returns in Start, Start returns in the pool runner goroutine, which
\* closes respCh (deferred) and hands its error to upload's errgroup
RunnerReturn ==
    /\ Running
    /\ runPc = "wait"
    /\ \A w \in Workers : w <= conc => wstate[w] = "done"
    /\ runPc' = "done"
    /\ startRet' = poolErr
    /\ pctxDone' = TRUE
    /\ startCtx' = startCtx
    /\ respChClosed' = TRUE
    /\ IF poolErr # NoErr
       THEN /\ egErr' = IF egErr = NoErr
                         THEN Errorf("processing worker pool", <<poolErr>>)
                         ELSE egErr
            /\ gctxDone' = TRUE
       ELSE UNCHANGED <<egErr, gctxDone>>
    /\ UNCHANGED <<mainVars, configVars, rangeVars, clientVars, ctxDone, tasks,
                   tasksClosed, wstate, wtask, wret, poolErr, handed,
                   failedTasks, firstFailed, genPc, genIdx, colPc, respCh,
                   results>>

\* ------------------------------------------------------- upload goroutines
\* the task of loop index genIdx of the generator
GenRange == getRange(genIdx, plan.PartSize, plan.Size)
GenMore  == genIdx < Len(plan.Parts) /\ GenRange[2] > 0
GenTask  == [ID |-> genIdx + 1, PartID |-> plan.Parts[genIdx + 1],
             Offset |-> GenRange[1], Length |-> GenRange[2]]

\* variant of GenEnqueue in which the send never waits for room in wp.tasks
GenEnqueueUnbounded ==
    /\ Running
    /\ genPc = "run"
    /\ GenMore
    /\ IF tasksClosed
       THEN pc' = "panic" /\ UNCHANGED <<tasks, genIdx>>
       ELSE /\ tasks' = Append(tasks, GenTask)
            /\ genIdx' = genIdx + 1
            /\ pc' = pc
    /\ UNCHANGED <<plan, uploadRet, procRet, ret, ingestCalls, finalizeCalls,
                   cancelCalls, cancelRecv, cancelRet, ingestID, outcome,
                   configVars, rangeVars, clientVars, ctxVars, tasksClosed,
                   wstate, wtask, wret, poolErr, startRet, startCtx, handed,
                   failedTasks, firstFailed, genPc, runPc, colPc, egErr,
                   respVars>>

\* generator: one loop iteration whose Enqueue puts the task into the buffer
\* of wp.tasks (blocks while the buffer is full)
GenEnqueue ==
    /\ Running
    /\ genPc = "run"
    /\ GenMore
    /\ Len(tasks) < queueSize \/ tasksClosed
    /\ IF tasksClosed
       THEN pc' = "panic" /\ UNCHANGED <<tasks, genIdx>>
       ELSE /\ tasks' = Append(tasks, GenTask)
            /\ genIdx' = genIdx + 1
            /\ pc' = pc
    /\ UNCHANGED <<plan, uploadRet, procRet, ret, ingestCalls, finalizeCalls,
                   cancelCalls, cancelRecv, cancelRet, ingestID, outcome,
                   configVars, rangeVars, clientVars, ctxVars, tasksClosed,
                   wstate, wtask, wret, poolErr, startRet, startCtx, handed,
                   failedTasks, firstFailed, genPc, runPc, colPc, egErr,
                   respVars>>

\* generator: one loop iteration whose Enqueue hands the task directly to a
\* worker waiting in select (the only way to send on an unbuffered wp.tasks)
GenHandoff(w) ==
    /\ Running
    /\ genPc = "run"
    /\ GenMore
    /\ queueSize = 0 /\ ~tasksClosed
    /\ wstate[w] = "select"
    /\ wstate' = [wstate EXCEPT ![w] = "busy"]
    /\ wtask' = [wtask EXCEPT ![w] = GenTask]
    /\ handed' = [handed EXCEPT ![GenTask.ID] = @ + 1]
    /\ genIdx' = genIdx + 1
    /\ UNCHANGED <<mainVars, configVars, rangeVars, clientVars, ctxVars, tasks,
                   tasksClosed, wret, poolErr, startRet, startCtx,
                   failedTasks, firstFailed, genPc, runPc, colPc, egErr,
                   respVars>>

\* variant of GenStop in which the generator returns without calling Stop
GenStopNoClose ==
    /\ Running
    /\ genPc = "run"
    /\ ~GenMore
    /\ genPc' = "done"
    /\ UNCHANGED <<mainVars, configVars, rangeVars, clientVars, ctxVars,
                   poolVars, genIdx, runPc, colPc, egErr, respVars>>

\* variant of GenStop in which the generator closes respCh as well
GenStopClosesResp ==
    /\ Running
    /\ genPc = "run"
    /\ ~GenMore
    /\ IF tasksClosed
       THEN pc' = "panic" /\ UNCHANGED <<genPc, tasksClosed>>
       ELSE genPc' = "done" /\ tasksClosed' = TRUE /\ pc' = pc
    /\ respChClosed' = TRUE
    /\ UNCHANGED <<plan, uploadRet, procRet, ret, ingestCalls, finalizeCalls,
                   cancelCalls, cancelRecv, cancelRet, ingestID, outcome,
                   configVars, rangeVars, clientVars, ctxVars, tasks, wstate,
                   wtask, wret, poolErr, startRet, startCtx, handed,
                   failedTasks, firstFailed, genIdx, runPc, colPc, egErr,
                   respCh, results>>

\* generator: the loop ends (part list exhausted or zero-length range) and
\* wp.Stop() closes wp.tasks
GenStop ==
    /\ Running
    /\ genPc = "run"
    /\ ~GenMore
    /\ IF tasksClosed
       THEN pc' = "panic" /\ UNCHANGED <<genPc, tasksClosed>>
       ELSE genPc' = "done" /\ tasksClosed' = TRUE /\ pc' = pc
    /\ UNCHANGED <<plan, uploadRet, procRet, ret, ingestCalls, finalizeCalls,
                   cancelCalls, cancelRecv, cancelRet, ingestID, outcome,
                   configVars, rangeVars, clientVars, ctxVars, tasks, wstate,
                   wtask, wret, poolErr, startRet, startCtx, handed,
                   failedTasks, firstFailed, genIdx, runPc, colPc, egErr,
                   respVars>>

\* collector: one iteration of for r := range respCh
CollectRecv ==
    /\ Running
    /\ colPc = "run"
    /\ respCh # <<>>
    /\ LET r == Head(respCh)
           k == Sprint(r.PartID)
       IN results' = [x \in DOMAIN results \cup {k} |->
                         IF x = k THEN r ELSE results[x]]
    /\ respCh' = Tail(respCh)
    /\ UNCHANGED <<mainVars, configVars, rangeVars, clientVars, ctxVars,
                   poolVars, roleVars, respChClosed>>

\* collector: respCh is closed and drained, the range loop ends
CollectDone ==
    /\ Running
    /\ colPc = "run"
    /\ respCh = <<>> /\ respChClosed
    /\ colPc' = "done"
    /\ UNCHANGED <<mainVars, configVars, rangeVars, clientVars, ctxVars,
                   poolVars, genPc, genIdx, runPc, egErr, respVars>>

\* ------------------------------------------ upload (join), finalize, cancel
\* variant of UploadJoin that does not wait for the collector
UploadJoinEarly ==
    /\ pc = "egWait"
    /\ runPc = "done" /\ genPc = "done"
    /\ gctxDone' = TRUE
    /\ IF egErr # NoErr
       THEN /\ uploadRet' = NoUploadResult
            /\ procRet' = UploadFailedError(plan.ID,
                              Errorf("waiting for error group to finish", <<egErr>>))
            /\ pc' = "withCancel"
       ELSE /\ \E responses \in Collect(results) :
                 uploadRet' = newUploadResult(plan.ID, SortFunc(responses))
            /\ procRet' = procRet
            /\ pc' = "finalize"
    /\ UNCHANGED <<plan, ret, ingestCalls, finalizeCalls, cancelCalls,
                   cancelRecv, cancelRet, ingestID, outcome, configVars,
                   rangeVars, clientVars, ctxDone, pctxDone, poolVars, roleVars,
                   respVars>>

\* variant of UploadJoin that returns on the cancellation of the group
\* context without joining the roles
UploadJoinOnCancel ==
    /\ pc = "egWait"
    /\ gctxDone \/ (runPc = "done" /\ genPc = "done" /\ colPc = "done")
    /\ gctxDone' = TRUE
    /\ LET e == IF egErr # NoErr THEN egErr
                ELSE IF runPc = "done" /\ genPc = "done" /\ colPc = "done"
                     THEN NoErr ELSE ctxErr
       IN IF e # NoErr
          THEN /\ uploadRet' = NoUploadResult
               /\ procRet' = UploadFailedError(plan.ID,
                                 Errorf("waiting for error group to finish", <<e>>))
               /\ pc' = "withCancel"
          ELSE /\ \E responses \in Collect(results) :
                    uploadRet' = newUploadResult(plan.ID, SortFunc(responses))
               /\ procRet' = procRet
               /\ pc' = "finalize"
    /\ UNCHANGED <<plan, ret, ingestCalls, finalizeCalls, cancelCalls,
                   cancelRecv, cancelRet, ingestID, outcome, configVars,
                   rangeVars, clientVars, ctxDone, pctxDone, poolVars, roleVars,
                   respVars>>

\* eg.Wait returns in upload; on success the results are collected and
\* sorted; process wraps an error of upload into an UploadFailedError
UploadJoin ==
    /\ pc = "egWait"
    /\ runPc = "done" /\ genPc = "done" /\ colPc = "done"
    /\ gctxDone' = TRUE
    /\ IF egErr # NoErr
       THEN /\ uploadRet' = NoUploadResult
            /\ procRet' = UploadFailedError(plan.ID,
                              Errorf("waiting for error group to finish", <<egErr>>))
            /\ pc' = "withCancel"
       ELSE /\ \E responses \in Collect(results) :
                 uploadRet' = newUploadResult(plan.ID, SortFunc(responses))
            /\ procRet' = procRet
            /\ pc' = "finalize"
    /\ UNCHANGED <<plan, ret, ingestCalls, finalizeCalls, cancelCalls,
                   cancelRecv, cancelRet, ingestID, outcome, configVars,
                   rangeVars, clientVars, ctxDone, pctxDone, poolVars, roleVars,
                   respVars>>

\* variant of finalizeErr without the check of the response's state
finalizeErrIgnoreState(o, id) ==
    CASE o = "transportErr" -> UploadFailedError(id, NoErr)
      [] o = "httpErr"      -> ErrNew("request failed with status")
      [] o = "decodeErr"    -> ErrNew("decode")
      [] OTHER              -> NoErr

\* the error finalize returns for each outcome of its request; id is ur.ID
finalizeErr(o, id) ==
    CASE o = "transportErr" -> UploadFailedError(id, NoErr)
      [] o = "httpErr"      -> ErrNew("request failed with status")
      [] o = "decodeErr"    -> ErrNew("decode")
      [] o = "failedState"  -> UploadFailedError(id, NoErr)
      [] OTHER              -> NoErr

\* finalize(ctx, uresp), called from process, and process's wrapping of its
\* error
Finalize ==
    /\ pc = "finalize"
    /\ finalizeCalls' = Append(finalizeCalls, uploadRet)
    /\ pc' = "withCancel"
    /\ \E o \in Outcomes :
         /\ outcome' = [outcome EXCEPT !.finalize = o]
         /\ procRet' = IF finalizeErr(o, uploadRet.ID) # NoErr
                       THEN UploadFailedError(plan.ID, finalizeErr(o, uploadRet.ID))
                       ELSE NoErr
    /\ UNCHANGED <<plan, uploadRet, ret, ingestCalls, cancelCalls,
                   cancelRecv, cancelRet, ingestID, configVars, rangeVars,
                   clientVars, ctxVars, poolVars, roleVars, respVars>>

\* cancel(ctx, id): its error for each outcome of the request
cancelErr(o) ==
    CASE o = "transportErr" -> Errorf("canceling upload", <<ErrNew("transport")>>)
      [] o = "httpErr"      -> Errorf("canceling upload", <<>>)
      [] o = "decodeErr"    -> Errorf("canceling upload", <<ErrNew("decode")>>)
      [] OTHER              -> NoErr

\* variant of withCancelErr that reports success once the cancel call went
\* through
withCancelErrNilAfterCancel(err, cerr) ==
    IF cerr # NoErr
    THEN Errorf("upload failed; cancel failed", <<err, cerr>>)
    ELSE NoErr

\* variant of withCancelErr that reports only the cancel error when the
\* cancel call failed
withCancelErrDropOriginal(err, cerr) ==
    IF cerr # NoErr
    THEN Errorf("cancel failed", <<cerr>>)
    ELSE Errorf("upload failed with", <<err>>)

\* the error withCancel returns for the error err of run and the error cerr
\* of the cancel call
withCancelErr(err, cerr) ==
    IF cerr # NoErr
    THEN Errorf("upload failed; cancel failed", <<err, cerr>>)
    ELSE Errorf("upload failed with", <<err>>)

\* withCancel after run returned: the compensating cancel call and the
\* return of Create/Update
WithCancel ==
    /\ pc = "withCancel"
    /\ pc' = "returned"
    /\ IF procRet = NoErr
       THEN /\ ret' = NoErr
            /\ UNCHANGED <<cancelCalls, cancelRecv, cancelRet>>
       ELSE LET uerr == AsUploadFailed(procRet) IN
            IF uerr # NoErr
            THEN \E o \in Outcomes \ {"failedState"} :
                   /\ cancelCalls' = Append(cancelCalls, uerr.ID)
                   /\ cancelRecv' = IF o = "transportErr" THEN cancelRecv
                                    ELSE Append(cancelRecv, uerr.ID)
                   /\ cancelRet' = cancelErr(o)
                   /\ ret' = withCancelErr(procRet, cancelErr(o))
            ELSE /\ ret' = withCancelErr(procRet, NoErr)
                 /\ UNCHANGED <<cancelCalls, cancelRecv, cancelRet>>
    /\ UNCHANGED <<plan, uploadRet, procRet, ingestCalls, finalizeCalls,
                   ingestID, outcome, configVars, rangeVars, clientVars,
                   ctxVars, poolVars, roleVars, respVars>>

\* ------------------------------------------------------------- environment
\* the caller's context is cancelled (timeout, SIGINT or SIGTERM); derived
\* contexts that exist are cancelled with it
CtxCancel ==
    /\ pc \notin {"returned", "panic"}
    /\ ~ctxDone
    /\ ctxDone' = TRUE
    /\ gctxDone' = (gctxDone \/ pc = "egWait")
    /\ pctxDone' = (pctxDone \/ runPc = "wait")
    /\ UNCHANGED <<mainVars, configVars, rangeVars, clientVars, poolVars,
                   roleVars, respVars>>

\* --------------------------------------------------------- specifications
MainStep      == FileInfo \/ Ingest \/ Upload \/ UploadJoin \/ Finalize \/ WithCancel
RunnerStep    == RunnerStart \/ RunnerReturn
GeneratorStep == GenEnqueue \/ GenStop \/ (\E w \in Workers : GenHandoff(w))
CollectorStep == CollectRecv \/ CollectDone
WorkerStep(w) == WorkerCtxDone(w) \/ WorkerTake(w) \/ WorkerClosed(w)
                 \/ WorkerProcess(w) \/ GenHandoff(w)

Next ==
    \/ FileInfo
    \/ Ingest
    \/ Upload
    \/ UploadJoin
    \/ Finalize
    \/ WithCancel
    \/ RunnerStart
    \/ RunnerReturn
    \/ GenEnqueue
    \/ GenStop
    \/ CollectRecv
    \/ CollectDone
    \/ \E w \in Workers : WorkerCtxDone(w)
    \/ \E w \in Workers : WorkerTake(w)
    \/ \E w \in Workers : WorkerClosed(w)
    \/ \E w \in Workers : WorkerProcess(w)
    \/ \E w \in Workers : GenHandoff(w)
    \/ CtxCancel

Spec == Init /\ [][Next]_vars

\* every goroutine that can take a step eventually takes one (the Go
\* scheduler); the cancellation of the caller's context is not forced
Fairness ==
    /\ WF_vars(MainStep)
    /\ WF_vars(RunnerStep)
    /\ WF_vars(GeneratorStep)
    /\ WF_vars(CollectorStep)
    /\ \A w \in Workers : WF_vars(WorkerStep(w))

SpecFair == Init /\ [][Next]_vars /\ Fairness

\* ---------------------------------------------------- getRange on its own
\* getRange is called for idx = 0, 1, 2, ... with one fileSize and one
\* partSize, as the loop of the generator does, but past the first range of
\* length zero; MaxRangeIdx is the last index examined
MaxRangeIdx == MaxRangeSize + 1

RangeInit ==
    /\ UploadInit /\ conc = 1 /\ queueSize = 0
    /\ rS \in RangeSizes /\ rP \in RangeParts
    /\ rIdx = 0 /\ rOff = 0 /\ rLen = 0 /\ rSum = 0
    /\ ClientIdle

\* off, length := getRange(int64(i), ir.Upload.PartSize, ir.Size)
RangeCall ==
    /\ rIdx <= MaxRangeIdx
    /\ LET r == getRange(rIdx, rP, rS) IN
         /\ rOff' = r[1]
         /\ rLen' = r[2]
         /\ rSum' = rSum + r[2]
    /\ rIdx' = rIdx + 1
    /\ UNCHANGED <<rS, rP, uploadVars, clientVars>>

RangeNext == RangeCall

SpecRange == RangeInit /\ [][RangeNext]_vars

\* ------------------------------------------- two uploads on the same Client
\* New builds one pool per Client (c.wp); every upload call of the Client
\* starts workers on it, enqueues on its wp.tasks and stops it.  The runs
\* are failure free: every Process succeeds and no context is cancelled.
ClientInit ==
    /\ UploadInit /\ queueSize >= 1
    /\ RangeIdle /\ ClientIdle

\* upload(ctx, ir, fp) is called: respCh is made and the three goroutines
\* of the errgroup are started
CUpload(u) ==
    /\ ~cPanic
    /\ cPc[u] = "idle"
    /\ cPc' = [cPc EXCEPT ![u] = "running"]
    /\ cGen' = [cGen EXCEPT ![u] = "run"]
    /\ cRun' = [cRun EXCEPT ![u] = "start"]
    /\ cAfter' = [cAfter EXCEPT ![u] = \E v \in Uploads \ {u} : cPc[v] = "done"]
    /\ UNCHANGED <<cTasks, cClosed, cIdx, cW, cWTask, cRespClosed, cGot,
                   cPanic, uploadVars, rangeVars>>

\* c.wp.Start(gctx) of upload u launches its workers
CRunnerStart(u) ==
    /\ ~cPanic
    /\ cRun[u] = "start"
    /\ cRun' = [cRun EXCEPT ![u] = "wait"]
    /\ cW' = [cW EXCEPT ![u] =
                 [w \in Workers |-> IF w <= conc THEN "select" ELSE "none"]]
    /\ UNCHANGED <<cPc, cTasks, cClosed, cGen, cIdx, cWTask, cRespClosed,
                   cGot, cPanic, cAfter, uploadVars, rangeVars>>

\* pool.process of a worker of upload u: a task is received from wp.tasks
CWorkerTake(u, w) ==
    /\ ~cPanic
    /\ cW[u][w] = "select"
    /\ cTasks # <<>>
    /\ cW' = [cW EXCEPT ![u][w] = "busy"]
    /\ cWTask' = [cWTask EXCEPT ![u][w] = Head(cTasks)]
    /\ cTasks' = Tail(cTasks)
    /\ UNCHANGED <<cPc, cClosed, cGen, cIdx, cRun, cRespClosed, cGot, cPanic,
                   cAfter, uploadVars, rangeVars>>

\* pool.process of a worker of upload u: wp.tasks is closed and drained
CWorkerClosed(u, w) ==
    /\ ~cPanic
    /\ cW[u][w] = "select"
    /\ cTasks = <<>> /\ cClosed
    /\ cW' = [cW EXCEPT ![u][w] = "done"]
    /\ UNCHANGED <<cPc, cTasks, cClosed, cGen, cIdx, cRun, cWTask,
                   cRespClosed, cGot, cPanic, cAfter, uploadVars, rangeVars>>

\* uploadProcessor.Process of the task: the response is sent on the RespCh
\* the task carries, the respCh of the upload that made the task
CWorkerProcess(u, w) ==
    /\ ~cPanic
    /\ cW[u][w] = "busy"
    /\ LET o == cWTask[u][w].up IN
         IF cRespClosed[o]
         THEN cPanic' = TRUE /\ UNCHANGED <<cW, cWTask, cGot>>
         ELSE /\ cGot' = [cGot EXCEPT ![o] = @ + 1]
              /\ cW' = [cW EXCEPT ![u][w] = "select"]
              /\ cWTask' = [cWTask EXCEPT ![u][w] = NoCTask]
              /\ cPanic' = cPanic
    /\ UNCHANGED <<cPc, cTasks, cClosed, cGen, cIdx, cRun, cRespClosed,
                   cAfter, uploadVars, rangeVars>>

\* Start of upload u returns and the pool runner closes respCh (deferred)
CRunnerReturn(u) ==
    /\ ~cPanic
    /\ cRun[u] = "wait"
    /\ \A w \in Workers : w <= conc => cW[u][w] = "done"
    /\ cRun' = [cRun EXCEPT ![u] = "done"]
    /\ cRespClosed' = [cRespClosed EXCEPT ![u] = TRUE]
    /\ UNCHANGED <<cPc, cTasks, cClosed, cGen, cIdx, cW, cWTask, cGot,
                   cPanic, cAfter, uploadVars, rangeVars>>

\* variant of CGenEnqueue in which a send on the closed queue still delivers
\* the task
CGenEnqueueClosed(u) ==
    /\ ~cPanic
    /\ cGen[u] = "run"
    /\ cIdx[u] < MaxClientParts
    /\ Len(cTasks) < queueSize \/ cClosed
    /\ cTasks' = Append(cTasks, [up |-> u, ID |-> cIdx[u] + 1])
    /\ cIdx' = [cIdx EXCEPT ![u] = @ + 1]
    /\ cPanic' = cPanic
    /\ UNCHANGED <<cPc, cClosed, cGen, cRun, cW, cWTask, cRespClosed, cGot,
                   cAfter, uploadVars, rangeVars>>

\* generator of upload u: c.wp.Enqueue of its next task; a send on a closed
\* channel panics
CGenEnqueue(u) ==
    /\ ~cPanic
    /\ cGen[u] = "run"
    /\ cIdx[u] < MaxClientParts
    /\ Len(cTasks) < queueSize \/ cClosed
    /\ IF cClosed
       THEN cPanic' = TRUE /\ UNCHANGED <<cTasks, cIdx>>
       ELSE /\ cTasks' = Append(cTasks, [up |-> u, ID |-> cIdx[u] + 1])
            /\ cIdx' = [cIdx EXCEPT ![u] = @ + 1]
            /\ cPanic' = cPanic
    /\ UNCHANGED <<cPc, cClosed, cGen, cRun, cW, cWTask, cRespClosed, cGot,
                   cAfter, uploadVars, rangeVars>>

\* generator of upload u: c.wp.Stop() after the loop; the close of a closed
\* channel panics
CGenStop(u) ==
    /\ ~cPanic
    /\ cGen[u] = "run"
    /\ cIdx[u] = MaxClientParts
    /\ IF cClosed
       THEN cPanic' = TRUE /\ UNCHANGED <<cGen, cClosed>>
       ELSE /\ cClosed' = TRUE
            /\ cGen' = [cGen EXCEPT ![u] = "done"]
            /\ cPanic' = cPanic
    /\ UNCHANGED <<cPc, cTasks, cIdx, cRun, cW, cWTask, cRespClosed, cGot,
                   cAfter, uploadVars, rangeVars>>

\* eg.Wait of upload u returns: generator and pool runner have returned and
\* the collector has drained the closed respCh
CUploadJoin(u) ==
    /\ ~cPanic
    /\ cPc[u] = "running"
    /\ cGen[u] = "done" /\ cRun[u] = "done"
    /\ cPc' = [cPc EXCEPT ![u] = "done"]
    /\ UNCHANGED <<cTasks, cClosed, cGen, cIdx, cRun, cW, cWTask,
                   cRespClosed, cGot, cPanic, cAfter, uploadVars, rangeVars>>

ClientNext ==
    \/ \E u \in Uploads : CUpload(u)
    \/ \E u \in Uploads : CRunnerStart(u)
    \/ \E u \in Uploads, w \in Workers : CWorkerTake(u, w)
    \/ \E u \in Uploads, w \in Workers : CWorkerClosed(u, w)
    \/ \E u \in Uploads, w \in Workers : CWorkerProcess(u, w)
    \/ \E u \in Uploads : CRunnerReturn(u)
    \/ \E u \in Uploads : CGenEnqueue(u)
    \/ \E u \in Uploads : CGenStop(u)
    \/ \E u \in Uploads : CUploadJoin(u)

SpecClient == ClientInit /\ [][ClientNext]_vars

\* ------------------------------------------------------------------ claims
\* upload has returned without error (process is at or past finalize)
UploadSucceeded == pc \in {"finalize", "withCancel", "returned"} /\ runPc = "done"
                   /\ egErr = NoErr
Returned        == pc = "returned"
PartIDsOf(s)    == { s[i].PartID : i \in 1..Len(s) }

\* C1: the Parts of the UploadResult returned by a successful upload are
\* strictly ascending by numeric PartID, whatever the order in which the
\* workers completed and whatever the order of the plan's part list.
C1_PartsStrictlyAscending ==
    UploadSucceeded =>
        \A i \in 1..(Len(uploadRet.Parts) - 1) :
            uploadRet.Parts[i].PartID < uploadRet.Parts[i + 1].PartID

\* C1 witness: a successful upload of three parts that the plan lists in
\* descending order, run by two workers.
C1_Witness ==
    /\ UploadSucceeded /\ conc = 2
    /\ Len(uploadRet.Parts) = 3
    /\ plan.Parts[1] > plan.Parts[2] /\ plan.Parts[2] > plan.Parts[3]

\* C2: once the processing of a part task has returned an error, finalize is
\* never invoked in the run and Create/Update, when it returns, returns an
\* error.
C2_TaskErrorNoFinalize ==
    failedTasks # {} => /\ finalizeCalls = <<>>
                        /\ (Returned => ret # NoErr)

\* C2 witness: Create/Update has returned after a task failed while another
\* task of the same upload succeeded.
C2_Witness ==
    /\ Returned /\ failedTasks # {}
    /\ \E i \in 1..MaxParts : handed[i] = 1 /\ i \notin failedTasks

\* C3: when Create/Update has returned an error, exactly one cancel call
\* was issued, with the ingestion ID, if the ingest response delivered an
\* ID, and no cancel call was issued otherwise.
C3_CancelCallCount ==
    (Returned /\ ret # NoErr) =>
        cancelCalls = IF ingestID # "" THEN <<ingestID>> ELSE <<>>

\* C3 witness: a part upload failed after the ID was obtained and the one
\* cancel call carried the ID.
C3_Witness ==
    /\ Returned /\ ret # NoErr
    /\ ingestID # "" /\ cancelCalls = <<IngestID>> /\ failedTasks # {}

\* C4: when Create/Update succeeds, no cancel call was issued in the run.
C4_NoCancelOnSuccess ==
    (Returned /\ ret = NoErr) => cancelCalls = <<>> /\ cancelRecv = <<>>

\* C4 witness: a successful run with parts uploaded and finalize called.
C4_Witness ==
    /\ Returned /\ ret = NoErr
    /\ Len(finalizeCalls) = 1 /\ Len(finalizeCalls[1].Parts) >= 2

\* C5: whenever the compensating cancel was called, the error returned by
\* Create/Update wraps the original UploadFailedError, which carries the
\* ingestion ID, and when the cancel call failed it wraps the cancel error
\* too.
C5_OriginalErrorKept ==
    (Returned /\ cancelCalls # <<>>) =>
        /\ procRet.type = "UploadFailedError" /\ procRet.ID = ingestID
        /\ ErrIs(ret, procRet)
        /\ AsUploadFailed(ret) = procRet
        /\ (cancelRet # NoErr => ErrIs(ret, cancelRet))

\* C5 witness: the cancel call failed after an upload failure.
C5_Witness ==
    /\ Returned /\ cancelCalls # <<>> /\ cancelRet # NoErr
    /\ failedTasks # {}

\* the pool runner role has failed: Start returned an error
RunnerFailed == runPc = "done" /\ startRet # NoErr

\* C6: if a role of the upload fails, the join in upload eventually returns
\* and the other two roles terminate, for every number of parts and every
\* queue capacity.
C6_RoleFailureJoins ==
    RunnerFailed ~> (pc # "egWait" /\ genPc = "done" /\ colPc = "done")

\* C7: when the caller's context is cancelled while an upload is running,
\* all three roles stop and Create/Update eventually returns.
C7_CancelledUploadReturns ==
    (ctxDone /\ pc = "egWait") ~> Returned

\* C8: when an upload that has an ingestion ID was aborted by the
\* cancellation of the caller's context, the service has received a cancel
\* request for that ID by the time Create/Update returns.
C8_CancelReceivedOnAbort ==
    (Returned /\ ingestID # "" /\ ErrIs(startRet, ctxErr)) =>
        cancelRecv = <<ingestID>>

\* C9: upload returns without error only if every task the generator
\* enqueued was taken from the queue and processed successfully, exactly
\* once, and the result then has exactly one entry per enqueued task.
C9_NoPartialSuccess ==
    UploadSucceeded =>
        /\ genPc = "done" /\ tasks = <<>>
        /\ \A w \in Workers : wstate[w] # "busy"
        /\ \A i \in 1..MaxParts : handed[i] = IF i <= genIdx THEN 1 ELSE 0
        /\ failedTasks = {}
        /\ Len(uploadRet.Parts) = genIdx
        /\ PartIDsOf(uploadRet.Parts) = { plan.Parts[i] : i \in 1..genIdx }

\* C9 witness: a successful upload whose plan lists more parts than the file
\* has ranges, so that only two tasks were enqueued.
C9_Witness ==
    /\ UploadSucceeded /\ genIdx = 2 /\ Len(plan.Parts) = 3
    /\ Len(uploadRet.Parts) = 2

\* the pool has finished an undisturbed run: Start returned nil after the
\* producer enqueued its tasks and called Stop, each task handed to the
\* processor exactly once
PoolDoneClean ==
    /\ runPc = "done" /\ startRet = NoErr /\ genPc = "done"
    /\ \A i \in 1..MaxParts : handed[i] = IF i <= genIdx THEN 1 ELSE 0

\* C10: once Start is invoked, and unless a task fails or the context is
\* cancelled, Start eventually returns nil with each of the enqueued tasks
\* handed to the processor exactly once.
C10_PoolProcessesAllOnce ==
    (runPc = "start") ~> (ctxDone \/ failedTasks # {} \/ PoolDoneClean)

\* C10 witness: Start returned nil after three tasks, more than the queue
\* holds, with no task error and no cancellation.
C10_Witness ==
    /\ PoolDoneClean /\ genIdx = 3 /\ queueSize = 1
    /\ ~ctxDone /\ failedTasks = {}

\* C11: when the processing of at least one task returned an error, Start
\* returns a non-nil error, and it is the error of the worker that returned
\* an error first; the errors of the workers that failed later are dropped.
C11_StartReturnsFirstError ==
    (runPc = "done" /\ failedTasks # {}) =>
        /\ startRet # NoErr
        /\ firstFailed \in Workers
        /\ startRet = wret[firstFailed]

\* C11 witness: Start has returned after two workers returned different
\* errors, one of them the error of a task.
C11_Witness ==
    /\ runPc = "done" /\ failedTasks # {}
    /\ wret[1] # NoErr /\ wret[2] # NoErr /\ wret[1] # wret[2]

\* C12: when the context passed to Start was cancelled before Start was
\* invoked and no task returned an error, Start returns the cancellation
\* error, whatever the state of the task queue.
C12_CancelledStartReturnsCtxErr ==
    (runPc = "done" /\ startCtx /\ failedTasks = {}) => ErrIs(startRet, ctxErr)

\* C13: the number of tasks waiting in wp.tasks never exceeds the queue
\* capacity, and an Enqueue completes only when the queue holds fewer tasks
\* than its capacity or, on a queue of capacity 0, when a worker waiting in
\* its select takes the task in the same step.
C13_Backpressure ==
    [][/\ Len(tasks') <= queueSize
       /\ genIdx' = genIdx + 1 =>
            \/ Len(tasks) < queueSize
            \/ \E w \in Workers : /\ wstate[w] = "select"
                                  /\ wstate'[w] = "busy"
                                  /\ wtask'[w] = GenTask]_vars

\* C13 witness: with one worker and a queue of capacity 1, the Enqueue of
\* the third task has completed after the worker took the second task out
\* of the full queue.
C13_Witness ==
    /\ queueSize = 1 /\ conc = 1 /\ genIdx = 3
    /\ Len(tasks) = 1 /\ tasks[1].ID = 3
    /\ wstate[1] = "busy" /\ wtask[1].ID = 2

\* C16: for a part size that is zero or negative, getRange returns (0, 0)
\* for every index and every file size, and the generator of an upload
\* with such a plan enqueues no task.
C16_NoWorkForNonPositivePartSize ==
    /\ \A i \in 0..MaxParts, p \in PartSizes, sz \in FileSizes :
         p <= 0 => getRange(i, p, sz) = <<0, 0>>
    /\ plan.PartSize <= 0 =>
         /\ genIdx = 0 /\ tasks = <<>>
         /\ \A i \in 1..MaxParts : handed[i] = 0
         /\ \A w \in Workers : wtask[w] = NoTask

\* C16 witness: the generator has finished on a plan with a negative part
\* size that lists three parts for a file of three bytes.
C16_Witness ==
    /\ genPc = "done" /\ plan.PartSize < 0
    /\ Len(plan.Parts) = 3 /\ plan.Size = 3 /\ genIdx = 0

\* C17: when the local path does not exist or is a directory, Create/Update
\* returns the validation error of fileInfo and no remote call was made: no
\* create/update request, no part upload, no finalize and no cancel.
C17_InvalidPathNoRemoteCall ==
    outcome.stat \in {"dir", "notexist"} =>
        /\ ingestCalls = 0 /\ finalizeCalls = <<>>
        /\ cancelCalls = <<>> /\ cancelRecv = <<>>
        /\ runPc = "idle" /\ \A i \in 1..MaxParts : handed[i] = 0
        /\ procRet = fileInfoErr(outcome.stat) /\ procRet # NoErr
        /\ Returned => (ret # NoErr /\ ErrIs(ret, procRet))

\* C17 witness: Create/Update has returned for a path that is a directory.
C17_Witness ==
    Returned /\ outcome.stat = "dir" /\ ret # NoErr

\* C18: when the create/update request succeeded but the plan it returned
\* has state "failed", no part task is enqueued or uploaded, finalize is not
\* invoked, and the error Create/Update returns is an UploadFailedError
\* that carries the ingestion ID of the response.
C18_FailedPlanIsUploadFailure ==
    outcome.ingest = "failedState" =>
        /\ runPc = "idle" /\ genIdx = 0 /\ tasks = <<>>
        /\ \A i \in 1..MaxParts : handed[i] = 0
        /\ finalizeCalls = <<>>
        /\ ingestID = IngestID
        /\ procRet = UploadFailedError(ingestID, NoErr)
        /\ Returned => (ret # NoErr /\ AsUploadFailed(ret) = procRet)

\* C18 witness: Create/Update has returned after a plan with state "failed".
C18_Witness ==
    /\ Returned /\ outcome.ingest = "failedState"
    /\ AsUploadFailed(ret).ID = IngestID

\* C19: when the finalize request went through but its response has state
\* "failed", finalize returns an UploadFailedError that carries the
\* ingestion ID, and Create/Update returns an error.
C19_FinalizeFailedState ==
    outcome.finalize = "failedState" =>
        /\ procRet.Err = <<UploadFailedError(ingestID, NoErr)>>
        /\ ingestID = IngestID
        /\ Returned => (ret # NoErr /\ ErrIs(ret, procRet))

\* C19 witness: Create/Update has returned an error after every part was
\* uploaded and the finalize response had state "failed".
C19_Witness ==
    /\ Returned /\ outcome.finalize = "failedState" /\ ret # NoErr
    /\ Len(finalizeCalls) = 1 /\ Len(finalizeCalls[1].Parts) = 3

\* C20: a response body that cannot be decoded, be it the response of the
\* create/update request or the response of finalize, never causes a
\* compensating cancel call.
C20_DecodeErrorNoCancel ==
    (outcome.ingest = "decodeErr" \/ outcome.finalize = "decodeErr") =>
        cancelCalls = <<>>

\* ceil(S / P) for S >= 0 and P > 0
Ceil(S, P) == (S + P - 1) \div P

\* C15: for fileSize S >= 0 and partSize P > 0, the calls of getRange for
\* idx = 0, 1, 2, ... return a length in (0, P] for every idx < ceil(S/P)
\* and length 0 for every idx >= ceil(S/P), and the lengths sum to S.
C15_RangeLengths ==
    rIdx > 0 =>
        LET i == rIdx - 1 IN
        /\ rOff = i * rP
        /\ i < Ceil(rS, rP) => (rLen > 0 /\ rLen <= rP)
        /\ i >= Ceil(rS, rP) => rLen = 0
        /\ rIdx >= Ceil(rS, rP) => rSum = rS

\* C15 witness: S = 35 and P = 10; the calls for idx 0..3 returned lengths
\* 10, 10, 10, 5 and the call for idx 4 returned (40, 0).
C15_Witness ==
    /\ rS = 35 /\ rP = 10 /\ rIdx = 5
    /\ rOff = 40 /\ rLen = 0 /\ rSum = 35

\* C14: two uploads that run at the same time on one Client are
\* independent: a task of an upload is only ever processed by a worker that
\* the same upload started, and while both uploads are running the Stop of
\* one never closes the task queue the generator of the other still uses.
C14_UploadsIndependent ==
    /\ \A u \in Uploads, w \in Workers : cWTask[u][w].up \in {0, u}
    /\ (\A u \in Uploads : cPc[u] = "running") =>
           \A u \in Uploads : cGen[u] = "run" => ~cClosed

\* Create/Update has returned without error
FullSuccess == Returned /\ ret = NoErr

\* the plan lists no more parts than the file has ranges
PlanFits ==
    plan.PartSize > 0 /\ Len(plan.Parts) <= Ceil(plan.Size, plan.PartSize)

\* C21: finalize is invoked only after every part upload has completed,
\* and on full success it was invoked exactly once, with one entry per part
\* task of the upload (per part of the plan, when the plan lists no more
\* parts than the file has ranges) in ascending PartID order.
C21_FinalizeOnceOrdered ==
    /\ finalizeCalls # <<>> =>
         /\ runPc = "done" /\ genPc = "done" /\ colPc = "done"
         /\ tasks = <<>> /\ \A w \in Workers : wstate[w] # "busy"
         /\ \A i \in 1..MaxParts : handed[i] = IF i <= genIdx THEN 1 ELSE 0
    /\ FullSuccess =>
         /\ Len(finalizeCalls) = 1
         /\ LET parts == finalizeCalls[1].Parts IN
              /\ Len(parts) = genIdx
              /\ PlanFits => Len(parts) = Len(plan.Parts)
              /\ PartIDsOf(parts) = { plan.Parts[i] : i \in 1..genIdx }
              /\ \A i \in 1..(Len(parts) - 1) :
                     parts[i].PartID < parts[i + 1].PartID

\* C21 witness: full success of an upload of three parts that the plan
\* lists in the order 3, 1, 2; finalize received the entries 1, 2, 3.
C21_Witness ==
    /\ FullSuccess /\ plan.Parts = <<3, 1, 2>>
    /\ Len(finalizeCalls) = 1
    /\ Len(finalizeCalls[1].Parts) = 3
    /\ finalizeCalls[1].Parts[1].PartID = 1
    /\ finalizeCalls[1].Parts[3].PartID = 3

\* C22: an upload that is called on a Client after another upload of the
\* same Client has returned never sends on a closed task queue and never
\* closes a closed task queue (either of which panics).
C22_ClientReusable ==
    \A u \in Uploads : cAfter[u] => ~cPanic

\* the part tasks that exist: those waiting in wp.tasks and those a worker
\* is processing
LiveTasks == { tasks[i] : i \in 1..Len(tasks) }
                 \cup { wtask[w] : w \in { v \in Workers : wstate[v] = "busy" } }

\* C23: the task of the part with PartID k carries the offset of the k-th
\* range of the file, (k - 1) * partSize, whatever the order in which the
\* plan lists the parts.
C23_PartOffsetByID ==
    \A t \in LiveTasks : t.Offset = (t.PartID - 1) * plan.PartSize

\* the bytes of the range of the i-th task the generator enqueued
EnqueuedBytes(i) ==
    LET r == getRange(i - 1, plan.PartSize, plan.Size)
    IN  r[1]..(r[1] + r[2] - 1)

\* C24: for a plan with partSize > 0 and any number of listed parts, the
\* ranges of the tasks the generator enqueued are pairwise disjoint and
\* together cover exactly the bytes 0 .. fileSize - 1.
C24_RangesCoverFile ==
    (genPc = "done" /\ plan.PartSize > 0) =>
        /\ \A i, j \in 1..genIdx :
               i # j => EnqueuedBytes(i) \cap EnqueuedBytes(j) = {}
        /\ UNION { EnqueuedBytes(i) : i \in 1..genIdx } = 0..(plan.Size - 1)

\* C25 (as stated): every pair getRange returns for idx >= 0, partSize > 0
\* and fileSize >= 0 has offset >= 0, length >= 0 and
\* offset + length <= fileSize, the zero-length range included.
C25_RangeWithinFile ==
    rIdx > 0 => (rOff >= 0 /\ rLen >= 0 /\ rOff + rLen <= rS)

\* C25 (amended): every pair getRange returns has offset >= 0 and
\* length >= 0; a range of nonzero length ends within the file, and a
\* zero-length range has an offset at or past the end of the file.
C25_NonzeroRangeWithinFile ==
    rIdx > 0 =>
        /\ rOff >= 0 /\ rLen >= 0
        /\ rLen > 0 => rOff + rLen <= rS
        /\ rLen = 0 => rOff >= rS

\* C25 witness: S = 35 and P = 10; the call for idx 3 returned the last,
\* shortened range (30, 5), which ends at the end of the file.
C25_Witness ==
    /\ rS = 35 /\ rP = 10 /\ rIdx = 4
    /\ rOff = 30 /\ rLen = 5

\* the pool runner, the generator and the collector have returned
AllRolesDone == runPc = "done" /\ genPc = "done" /\ colPc = "done"

\* C26: upload leaves its join, and with it reads the collected results,
\* only when pool runner, generator and collector have all returned;
\* finalize is invoked only then; and once the three have returned the
\* results map is not written any more.
C26_RolesJoinedBeforeRead ==
    [][/\ (pc = "egWait" /\ pc' \in {"finalize", "withCancel"}) => AllRolesDone
       /\ finalizeCalls' # finalizeCalls => AllRolesDone
       /\ AllRolesDone => results' = results]_vars

\* C26 witness: upload has read three collected results after the three
\* roles returned, and finalize is about to be called.
C26_Witness ==
    pc = "finalize" /\ AllRolesDone /\ Len(uploadRet.Parts) = 3

\* C27 (as stated): the result stream respCh is closed by a step of the
\* generator, when it has finished enqueuing.
C27_ClosedByGenerator ==
    [][(~respChClosed /\ respChClosed') =>
           (genPc = "run" /\ genPc' = "done")]_vars

\* C27 (amended): the result stream respCh is closed by the pool runner,
\* in the step in which Start returns after every worker has returned, and
\* by no step of the generator or of a worker.
C27_ClosedByPoolRunner ==
    [][(~respChClosed /\ respChClosed') =>
           /\ runPc = "wait" /\ runPc' = "done"
           /\ \A w \in Workers : w <= conc => wstate[w] = "done"
           /\ genPc' = genPc /\ wstate' = wstate]_vars

\* C27 witness: respCh is closed although the generator has not finished
\* enqueuing (a task failed and Start returned).
C27_Witness ==
    respChClosed /\ runPc = "done" /\ genPc = "run" /\ genIdx >= 1

\* C28: in one upload on a fresh Client respCh is closed exactly once, by
\* the one return of the pool runner, it is closed by the time the collector
\* has ended, and no worker sends on it or is still processing a task once
\* it is closed, also when a task failed or the context was cancelled.
C28_ResultStreamClosedOnce ==
    [][/\ respChClosed' # respChClosed =>
            (~respChClosed /\ runPc = "wait" /\ runPc' = "done")
       /\ runPc = "done" => runPc' = "done"
       /\ colPc' = "done" => respChClosed'
       /\ Len(respCh') > Len(respCh) => (~respChClosed /\ ~respChClosed')
       /\ respChClosed' => \A w \in Workers : wstate'[w] # "busy"]_vars

\* C28 witness: respCh is closed after a run with two workers in which one
\* task failed and the result of a sibling task was sent.
C28_Witness ==
    /\ respChClosed /\ conc = 2 /\ failedTasks # {}
    /\ respCh # <<>> \/ results # <<>>

\* C29: in one upload on a fresh Client the generator calls Stop exactly
\* once, as the step that ends it, after its last Enqueue: when the loop
\* ran through all listed parts, when it broke out on a zero-length range
\* and when the part list is empty; no task is enqueued after Stop.
C29_StopOnceAfterLastEnqueue ==
    [][/\ tasksClosed' # tasksClosed =>
            (~tasksClosed /\ genPc = "run" /\ genPc' = "done" /\ ~GenMore)
       /\ (genPc = "run" /\ genPc' = "done") => (~tasksClosed /\ tasksClosed')
       /\ genPc = "done" => (genPc' = "done" /\ tasksClosed')
       /\ genIdx' # genIdx => (~tasksClosed /\ ~tasksClosed')
       /\ Len(tasks') > Len(tasks) => (~tasksClosed /\ ~tasksClosed')]_vars

\* C29 witness: the generator has called Stop after it broke out of the
\* loop on a zero-length range, with two of three listed parts enqueued.
C29_Witness ==
    /\ genPc = "done" /\ tasksClosed
    /\ genIdx = 2 /\ Len(plan.Parts) = 3 /\ pc = "egWait"

\* C30: the pool does not abort a task that is being processed when another
\* task has failed: a worker leaves a task only when Process has returned
\* for it, with a result sent or with an error that becomes the worker's
\* own return value, and Start returns only when every worker has returned.
C30_SiblingRunsToCompletion ==
    [][/\ \A w \in Workers :
            (wstate[w] = "busy" /\ wstate'[w] # "busy") =>
                \/ /\ wstate'[w] = "select"
                   /\ Len(respCh') = Len(respCh) + 1
                   /\ respCh'[Len(respCh')].PartID = wtask[w].PartID
                \/ /\ wstate'[w] = "done"
                   /\ wret'[w] # NoErr
                   /\ wtask[w].ID \in failedTasks'
       /\ (runPc = "wait" /\ runPc' = "done") =>
            \A w \in Workers : w <= conc => wstate[w] = "done"]_vars

\* C30 witness: a task has failed and its worker has returned, while the
\* second worker is still processing a sibling task and Start has not
\* returned.
C30_Witness ==
    /\ runPc = "wait" /\ conc = 2 /\ failedTasks # {}
    /\ \E w, v \in Workers :
          /\ wstate[w] = "done" /\ wret[w] # NoErr
          /\ wstate[v] = "busy" /\ wtask[v].ID \notin failedTasks

\* C31: once a worker has returned an error, every worker eventually
\* returns and Start eventually returns, also when Stop was never called
\* and tasks remain in the queue.
C31_ErrorEndsStart ==
    (runPc = "wait" /\ poolErr # NoErr) ~>
        (runPc = "done" /\ \A w \in Workers : w <= conc => wstate[w] = "done")

\* C31 witness: Start has returned an error while the task queue is still
\* open and holds a task.
C31_Witness ==
    /\ runPc = "done" /\ startRet # NoErr
    /\ ~tasksClosed /\ tasks # <<>>

\* C32: once the context seen by the workers is cancelled, no worker takes
\* another task from the queue; only the tasks in flight at that moment are
\* still processed.
C32_NoTakeAfterCancel == [][pctxDone => handed' = handed]_vars

\* the workers that are inside a Process call
Busy == { w \in Workers : wstate[w] = "busy" }

\* C33: at every moment of a Start run at most `concurrency` tasks are being
\* processed, and no task is being processed by two workers at once.
C33_BoundedParallelism ==
    /\ Cardinality(Busy) <= conc
    /\ \A v, w \in Busy : v # w => wtask[v].ID # wtask[w].ID

\* C33 witness: as many tasks as the configured concurrency, more than one,
\* are being processed at the same moment.
C33_Witness ==
    /\ runPc = "wait"
    /\ conc > 1
    /\ Cardinality(Busy) = conc

\* C34: an Enqueue performed after Stop adds no task to the queue and no
\* such task reaches a worker: once the queue is closed it never grows, no
\* Enqueue completes, and a worker only receives a task that was already
\* queued.
C34_NoEnqueueAfterStop ==
    [][cClosed =>
         /\ Len(cTasks') <= Len(cTasks)
         /\ cIdx' = cIdx
         /\ \A u \in Uploads, w \in Workers :
              cWTask'[u][w] # cWTask[u][w] =>
                  \/ cWTask'[u][w] = NoCTask
                  \/ cTasks # <<>> /\ cWTask'[u][w] = Head(cTasks)]_vars

\* C34 witness: the client has panicked in an Enqueue on the closed queue
\* (no generator was at its Stop and no worker was sending on a closed
\* result stream).
C34_Witness ==
    /\ cPanic /\ cClosed
    /\ \E u \in Uploads : cGen[u] = "run" /\ cIdx[u] < MaxClientParts
    /\ \A u \in Uploads : ~(cGen[u] = "run" /\ cIdx[u] = MaxClientParts)
    /\ \A u \in Uploads, w \in Workers :
         cW[u][w] = "busy" => ~cRespClosed[cWTask[u][w].up]

\* the error Process returns for a response without ETag
EmptyETagErr == ErrNew("empty etag in response header")

\* the PartIDs of the responses sent on the result stream so far
SentPartIDs ==
    PartIDsOf(respCh) \cup { results[k].PartID : k \in DOMAIN results }

\* C35: every entry of the result of a successful upload has a non-empty
\* ETag; a part whose response carries an empty ETag makes its task fail,
\* sends no result and fails the whole upload.
C35_NoEmptyETag ==
    /\ UploadSucceeded =>
           \A i \in 1..Len(uploadRet.Parts) :
               uploadRet.Parts[i].ETag # EmptyETag
    /\ \A i \in failedTasks : plan.Parts[i] \notin SentPartIDs
    /\ (\E w \in Workers : wret[w] = EmptyETagErr) =>
           /\ failedTasks # {}
           /\ ~UploadSucceeded /\ pc # "finalize"
           /\ finalizeCalls = <<>>
           /\ Returned => ret # NoErr

\* C35 witness: Create/Update has returned after one part's response carried
\* an empty ETag while another part's response had been collected.
C35_Witness ==
    /\ Returned
    /\ \E w \in Workers : wret[w] = EmptyETagErr
    /\ DOMAIN results # {}

\* C36: in the result of a successful upload each entry pairs a PartID with
\* the ETag the processor returned for the task of that PartID, whatever the
\* completion order.
C36_ETagBelongsToPart ==
    UploadSucceeded =>
        \A i \in 1..Len(uploadRet.Parts) :
            uploadRet.Parts[i].ETag = ETagOf(uploadRet.Parts[i].PartID)

\* C36 witness: a successful upload of a plan that lists its parts out of
\* order, run by two workers.
C36_Witness ==
    /\ UploadSucceeded /\ conc = 2
    /\ Len(uploadRet.Parts) >= 2
    /\ plan.Parts[1] # 1

\* C37: on the failure-free path (no task error, no cancellation) an upload
\* that has started its roles terminates with success, for every number of
\* parts, queue capacity and concurrency; and a worker's send on the result
\* stream never blocks: while a worker is processing a task the stream is
\* open and has a free slot.
C37_FailureFreeUploadSucceeds ==
    /\ [](\A w \in Busy : ~respChClosed /\ Len(respCh) < respChCap)
    /\ (pc = "egWait") ~> (ctxDone \/ failedTasks # {} \/ UploadSucceeded)

\* C37 witness: an upload of three parts has succeeded through a queue of
\* capacity one drained by a single worker.
C37_Witness ==
    /\ UploadSucceeded /\ ~ctxDone
    /\ genIdx = 3 /\ queueSize = 1 /\ conc = 1
    /\ Len(uploadRet.Parts) = 3

\* C38: the compensating cancel call is issued only after the upload has
\* unwound: when the cancel request is sent no worker is processing a part
\* and every role of the upload has returned, and no part is handed to a
\* worker afterwards.
C38_CancelAfterUnwind ==
    /\ [](cancelCalls # <<>> =>
            /\ Busy = {}
            /\ \A w \in Workers : wstate[w] \in {"none", "done"}
            /\ runPc \in {"idle", "done"}
            /\ genPc \in {"idle", "done"}
            /\ colPc \in {"idle", "done"})
    /\ [][cancelCalls' # <<>> => handed' = handed]_vars

\* C38 witness: a cancel call was issued for an upload in which one part
\* failed after another part had been taken by the second worker.
C38_Witness ==
    /\ cancelCalls # <<>>
    /\ conc = 2
    /\ failedTasks # {}
    /\ \E i \in 1..MaxParts : handed[i] = 1 /\ i \notin failedTasks

\* C39: for every outcome of the stat call fileInfo returns either a file
\* info with a nil error (a regular file) or no info with an error, so
\* process never uses a nil file info.
C39_FileInfoOrError ==
    outcome.stat # "" =>
        /\ (outcome.stat = "file") # (fileInfoErr(outcome.stat) # NoErr)
        /\ pc # "panic"
====
